---- MODULE Spec2Model ----
(***************************************************************************)
(* SpectrumAnalyzer (src/src/analyzers/spectrum_analyzer.py): a caller     *)
(* thread that calls start() and stop(), a reader thread and an FFT worker *)
(* thread per successful start(), one queue.Queue shared by all of them.   *)
(* Every step of a thread is one access to shared state (the queue, the    *)
(* stop event, the flags) together with the local code around it.          *)
(* Timed waits are untimed: a wait with a timeout may give up whenever the *)
(* condition it waits for does not hold.                                   *)
(***************************************************************************)
EXTENDS Integers, Sequences, FiniteSets, TLC

\* ---- bounds of the model ------------------------------------------------
MaxRuns == 2          \* successful start() calls on one analyzer
MaxSamples == 5       \* samples in the audio file
MaxRestartSamples == 1 \* samples in a file that is analysed more than once
FramesPerChunk == 2   \* chunk_size = hop_length * 50 in the program
QueueMaxSize == 2     \* queue.Queue(maxsize=10) in the program
MaxFftSize == 2       \* largest fft_size tried
MaxEndFailRuns == 1   \* start() calls up to which the end signal may raise
MaxRate == 4          \* largest sample rate of the file, in Hz
MaxMaxFreq == 3       \* largest max_freq tried, in Hz
MetaMaxFftSize == 4   \* largest fft_size tried where the bins are examined
MaxAmplitude == 3     \* largest sample tried, in units of 1e-10
MaxReloadSamples == 3 \* longest file shown or loaded where load_audio is examined

Runs == 1..MaxRuns

\* the index of the queue item None, which carries no frame
NoneIdx == -1
\* the index of the end signal, self.callback(-1, np.array([]))
EndIdx == -1
\* max_freq of an analyzer constructed without it (None)
NoMaxFreq == -1
\* sample_rate, duration, total_samples and _freq_bins before the first
\* start() has loaded them (None)
NotLoaded == -1
\* np.maximum(magnitudes, 1e-10): the floor is 10 ^ -FloorExponent
FloorExponent == 10

VARIABLES
    fft_size,        \* self.fft_size
    hop_length,      \* self.hop_length
    fileSamples,     \* number of samples the file at self.path decodes to
    is_running,      \* self.is_running
    is_finished,     \* self.is_finished
    stop_event,      \* self._stop_event
    audio_queue,     \* self._audio_queue
    threads,         \* number of thread pairs created; self._reader_thread
                     \* and self._worker_thread are the pair number `threads`
    readerPc,        \* position of each reader thread
    buffer,          \* reader local: buffer
    frame_index,     \* reader local: frame_index
    streamPos,       \* reader local: samples the stream has yielded
    workerPc,        \* position of each worker thread
    mainPc,          \* position of the caller inside stop()
    ret,             \* outcome of the caller's last start()/stop()
    num_time_frames, \* 'num_time_frames' of the dict the last successful
                     \* start() returned
    calls,           \* callback invocations since the last successful
                     \* start(), in order
    dropped,         \* per reader: first samples of the frames it skipped
    streamFailed,    \* per reader: the stream raised
    stopCalled,      \* stop() was called since the last successful start()
    cbRaised,        \* per worker: a frame callback raised
    max_freq,        \* self.max_freq, in Hz
    fileRate,        \* sample rate of the file at self.path, in Hz
    sample_rate,     \* self.sample_rate
    duration,        \* self.duration in seconds, as the fraction <<n, d>>
    total_samples,   \* self.total_samples
    arrays,          \* the arrays start() has allocated, by reference
    freq_bins,       \* self._freq_bins, a reference into arrays
    metadata,        \* the dict the last successful start() returned,
                     \* 'frequencies' being a reference into arrays
    dspPc,           \* position in the computation of one frame's
                     \* magnitudes
    audio_frame,     \* worker local: audio_frame, samples in units of 1e-10
    windowed_frame,  \* worker local: windowed_frame
    magnitudes,      \* worker local: magnitudes, in units of 1e-10
    magnitudes_db,   \* worker local: magnitudes_db
    spectrogram_data,       \* SpectrumViewer.spectrogram_data
    data_lock,              \* SpectrumViewer.data_lock: the thread holding it
    last_displayed_frame,   \* SpectrumViewer._last_displayed_frame
    events,          \* the event queue of the GUI thread
    guiPc,           \* position of the GUI thread
    guiArgs          \* arguments of the slot the GUI thread is running

progVars == <<fft_size, hop_length, fileSamples, is_running, is_finished,
              stop_event, audio_queue, threads, readerPc, buffer,
              frame_index, streamPos, workerPc, calls, num_time_frames>>
histVars == <<dropped, streamFailed, stopCalled, cbRaised>>
metaVars == <<max_freq, fileRate, sample_rate, duration, total_samples,
              arrays, freq_bins, metadata>>
dspVars == <<dspPc, audio_frame, windowed_frame, magnitudes, magnitudes_db>>
viewVars == <<spectrogram_data, data_lock, last_displayed_frame, events,
              guiPc, guiArgs>>
vars == <<progVars, mainPc, ret, histVars, metaVars, dspVars, viewVars>>

\* ---- helpers ------------------------------------------------------------
Min(a, b) == IF a < b THEN a ELSE b

\* chunk_size = self.hop_length * 50: the stream yields blocks of
\* chunk_size samples, the last one shorter
ChunkSize == hop_length * FramesPerChunk

\* samples are named by their offset in the file: the stream yields
\* offsets streamPos .. streamPos + n - 1
Chunk(from, n) == [i \in 1..n |-> from + i - 1]

\* buffer[k:]
DropFirst(s, k) == IF k >= Len(s) THEN <<>> ELSE SubSeq(s, k + 1, Len(s))

\* the item put on the queue for a frame, and the end-of-data item None
FrameItem(r, idx, frame) == [by |-> r, idx |-> idx, frame |-> frame]
NoneItem(r) == [by |-> r, idx |-> NoneIdx, frame |-> <<>>]
IsNone(item) == item.idx = NoneIdx

QueueFull == Len(audio_queue) >= QueueMaxSize
QueueEmpty == Len(audio_queue) = 0

\* a callback invocation by worker w: the index passed, the reader that
\* produced the frame and the offset of the frame's first sample
\* if self.max_freq: None and 0.0 are both false
Truthy(x) == x # NoMaxFreq /\ x # 0

\* len(np.fft.rfft(windowed_frame))
SpectrumLen == fft_size \div 2 + 1

\* the magnitudes without the cut to len(self._freq_bins)
MagnitudesLen_NoLimit == SpectrumLen

\* len(magnitudes_db) as passed to the callback: cut to
\* len(self._freq_bins) if max_freq is set and there are more magnitudes
MagnitudesLen ==
    IF Truthy(max_freq) /\ SpectrumLen > Len(arrays[freq_bins])
    THEN Len(arrays[freq_bins])
    ELSE SpectrumLen

\* a callback invocation by worker w: the index passed, the reader that
\* produced the frame, the offset of the frame's first sample and the
\* length of the magnitudes passed
FrameCall(w, item) ==
    [w |-> w, idx |-> item.idx, by |-> item.by, pos |-> item.frame[1],
     n |-> MagnitudesLen]
TerminalCall(w) ==
    [w |-> w, idx |-> EndIdx, by |-> w, pos |-> EndIdx, n |-> 0]

\* the bound on the calls of start() that get past the metadata probe
WithinRunBounds ==
    /\ threads < MaxRuns
    /\ threads > 0 => fileSamples <= MaxRestartSamples

\* (self.total_samples - self.fft_size) // self.hop_length + 1, where //
\* rounds towards minus infinity, as \div does
NumTimeFrames == (fileSamples - fft_size) \div hop_length + 1

ReaderAlive(r) == readerPc[r] \notin {"none", "done"}
WorkerAlive(r) == workerPc[r] \notin {"none", "done"}

\* ---- the metadata of start() -------------------------------------------
\* np.fft.rfftfreq(n, 1/sr): the n // 2 + 1 frequencies k * sr / n.  A
\* frequency is kept as its numerator k * sr, in units of 1/n Hz.
RfftFreq(n, sr) == [k \in 1..(n \div 2 + 1) |-> (k - 1) * sr]

\* np.searchsorted(a, v): binary search of the sorted a for the first
\* index (counted from 0) whose element is not below v
RECURSIVE BinarySearch(_, _, _, _)
BinarySearch(a, v, lo, hi) ==
    IF lo >= hi
    THEN lo
    ELSE LET mid == (lo + hi) \div 2
         IN  IF a[mid + 1] < v
             THEN BinarySearch(a, v, mid + 1, hi)
             ELSE BinarySearch(a, v, lo, mid)

SearchSorted(a, v) == BinarySearch(a, v, 0, Len(a))

\* self._freq_bins as start() sets it up for the file: all the bins, or
\* the bins before index searchsorted(bins, max_freq) if max_freq is set
\* (max_freq Hz is max_freq * fft_size in the unit of the bins)
FreqBins ==
    LET bins == RfftFreq(fft_size, fileRate)
    IN  IF Truthy(max_freq)
        THEN SubSeq(bins, 1, SearchSorted(bins, max_freq * fft_size))
        ELSE bins

\* total samples with the duration truncated before the multiplication
TotalSamples_TruncatedDuration(d, sr) == (d[1] \div d[2]) * sr

\* int(self.duration * self.sample_rate) for the duration d[1] / d[2]
TotalSamples(d, sr) == (d[1] * sr) \div d[2]

\* the dict returned with self._freq_bins itself as 'frequencies'
ReturnedFrequencies_NoCopy(ref) == ref

\* self._freq_bins.copy(): a new array, at the next reference
ReturnedFrequencies(ref) == ref + 1

\* the metadata part of a successful start(): the probe of the file
\* (duration, sample rate), the frequency bins, and the dict returned
LoadAndReturnMetadata ==
    /\ duration' = <<fileSamples, fileRate>>
    /\ sample_rate' = fileRate
    /\ total_samples' = TotalSamples(duration', sample_rate')
    /\ freq_bins' = 1
    /\ arrays' = [ref \in 1..ReturnedFrequencies(freq_bins') |-> FreqBins]
    /\ metadata' = [sample_rate |-> sample_rate',
                    duration |-> duration',
                    total_samples |-> total_samples',
                    fft_size |-> fft_size,
                    hop_length |-> hop_length,
                    frequencies |-> ReturnedFrequencies(freq_bins')]
    /\ UNCHANGED <<max_freq, fileRate>>

\* ---- construction -------------------------------------------------------
\* no frame is being converted
DspIdle ==
    /\ dspPc = "idle"
    /\ audio_frame = <<>>
    /\ windowed_frame = <<>>
    /\ magnitudes = <<>>
    /\ magnitudes_db = <<>>

\* SpectrumViewer.spectrogram_data = None
NoBuffer == [allocated |-> FALSE, rows |-> <<>>]

\* no arguments: the GUI thread is in no slot
NoArgs == [idx |-> EndIdx, n |-> 0]

\* the analyzer is used without a SpectrumViewer
ViewNotConstructed ==
    /\ spectrogram_data = NoBuffer
    /\ data_lock = "free"
    /\ last_displayed_frame = 0
    /\ events = <<>>
    /\ guiPc = "idle"
    /\ guiArgs = NoArgs

\* the fields start() loads, before the first start()
MetaNotLoaded ==
    /\ sample_rate = NotLoaded
    /\ duration = <<>>
    /\ total_samples = NotLoaded
    /\ arrays = <<>>
    /\ freq_bins = NotLoaded
    /\ metadata = [sample_rate |-> NotLoaded,
                   duration |-> <<>>,
                   total_samples |-> NotLoaded,
                   fft_size |-> NotLoaded,
                   hop_length |-> NotLoaded,
                   frequencies |-> NotLoaded]

Init ==
    /\ fft_size \in 1..MaxFftSize
    /\ hop_length \in 1..fft_size
    /\ fileSamples \in 0..MaxSamples
    /\ is_running = FALSE
    /\ is_finished = FALSE
    /\ stop_event = FALSE
    /\ audio_queue = <<>>
    /\ threads = 0
    /\ readerPc = [r \in Runs |-> "none"]
    /\ buffer = [r \in Runs |-> <<>>]
    /\ frame_index = [r \in Runs |-> 0]
    /\ streamPos = [r \in Runs |-> 0]
    /\ workerPc = [r \in Runs |-> "none"]
    /\ mainPc = "idle"
    /\ ret = "none"
    /\ num_time_frames = 0
    /\ calls = <<>>
    /\ dropped = [r \in Runs |-> {}]
    /\ streamFailed = [r \in Runs |-> FALSE]
    /\ stopCalled = FALSE
    /\ cbRaised = [r \in Runs |-> FALSE]
    /\ max_freq = NoMaxFreq
    /\ fileRate = MaxRate
    /\ MetaNotLoaded
    /\ DspIdle
    /\ ViewNotConstructed

\* ---- start() ------------------------------------------------------------
\* start() without the check of is_running
Start_NoRunningCheck ==
    /\ mainPc = "idle"
    /\ WithinRunBounds
    /\ is_running' = TRUE
    /\ is_finished' = FALSE
    /\ stop_event' = FALSE
    /\ threads' = threads + 1
    /\ readerPc' = [readerPc EXCEPT ![threads + 1] = "next"]
    /\ workerPc' = [workerPc EXCEPT ![threads + 1] = "loop"]
    /\ ret' = "started"
    /\ calls' = <<>>
    /\ dropped' = [r \in Runs |-> IF ReaderAlive(r) THEN dropped[r] ELSE {}]
    /\ streamFailed' = [r \in Runs |-> ReaderAlive(r) /\ streamFailed[r]]
    /\ cbRaised' = [r \in Runs |-> WorkerAlive(r) /\ cbRaised[r]]
    /\ stopCalled' = FALSE
    /\ num_time_frames' = NumTimeFrames
    /\ LoadAndReturnMetadata
    /\ UNCHANGED <<dspVars, viewVars, fft_size, hop_length, fileSamples, audio_queue, buffer,
                   frame_index, streamPos, mainPc>>

\* start() with is_running set before the metadata is loaded
Start_FlagBeforeProbe ==
    /\ mainPc = "idle"
    /\ IF is_running
       THEN /\ ret' = "AlreadyRunning"
            /\ UNCHANGED <<progVars, mainPc, histVars, metaVars, dspVars, viewVars>>
       ELSE \E probeOk \in BOOLEAN :
            IF ~probeOk
            THEN /\ ret' = "MetadataUnavailable"
                 /\ is_running' = TRUE
                 /\ UNCHANGED <<metaVars, dspVars, viewVars, fft_size, hop_length, fileSamples,
                                num_time_frames, is_finished, stop_event,
                                audio_queue, threads, readerPc, buffer,
                                frame_index, streamPos, workerPc, calls,
                                mainPc, histVars>>
            ELSE Start_NoRunningCheck

\* start(): the check of is_running; the metadata, where any exception
\* (file missing or unreadable, sample rate 0) becomes a RuntimeError for
\* the caller; the flags and the two threads; the returned dict
Start ==
    /\ mainPc = "idle"
    /\ IF is_running
       THEN /\ ret' = "AlreadyRunning"
            /\ UNCHANGED <<progVars, mainPc, histVars, metaVars, dspVars, viewVars>>
       ELSE \E probeOk \in BOOLEAN :
            IF ~probeOk
            THEN /\ ret' = "MetadataUnavailable"
                 /\ UNCHANGED <<progVars, mainPc, histVars, metaVars, dspVars, viewVars>>
            ELSE /\ WithinRunBounds
                 /\ is_running' = TRUE
                 /\ is_finished' = FALSE
                 /\ stop_event' = FALSE
                 /\ threads' = threads + 1
                 /\ readerPc' = [readerPc EXCEPT ![threads + 1] = "next"]
                 /\ workerPc' = [workerPc EXCEPT ![threads + 1] = "loop"]
                 /\ ret' = "started"
                 /\ calls' = <<>>
                 /\ dropped' = [r \in Runs |->
                                  IF ReaderAlive(r) THEN dropped[r] ELSE {}]
                 /\ streamFailed' = [r \in Runs |->
                                  ReaderAlive(r) /\ streamFailed[r]]
                 /\ cbRaised' = [r \in Runs |->
                                  WorkerAlive(r) /\ cbRaised[r]]
                 /\ stopCalled' = FALSE
                 /\ num_time_frames' = NumTimeFrames
                 /\ LoadAndReturnMetadata
                 /\ UNCHANGED <<dspVars, viewVars, fft_size, hop_length, fileSamples,
                                audio_queue, buffer, frame_index, streamPos,
                                mainPc>>

\* ---- stop() -------------------------------------------------------------
\* stop() without the check of is_running
StopCall_NoRunningCheck ==
    /\ mainPc = "idle"
    /\ stop_event' = TRUE
    /\ is_running' = FALSE
    /\ mainPc' = "joinReader"
    /\ ret' = "stopping"
    /\ stopCalled' = TRUE
    /\ UNCHANGED <<metaVars, dspVars, viewVars, fft_size, hop_length, fileSamples,
                   num_time_frames, is_finished,
                   audio_queue, threads, readerPc, buffer, frame_index,
                   streamPos, workerPc, calls, dropped, streamFailed,
                   cbRaised>>

StopCall ==
    /\ mainPc = "idle"
    /\ IF ~is_running
       THEN /\ ret' = "stopNoop"
            /\ UNCHANGED <<progVars, mainPc, histVars, metaVars, dspVars, viewVars>>
       ELSE /\ stop_event' = TRUE
            /\ is_running' = FALSE
            /\ mainPc' = "joinReader"
            /\ ret' = "stopping"
            /\ stopCalled' = TRUE
            /\ UNCHANGED <<metaVars, dspVars, viewVars, fft_size, hop_length, fileSamples,
                           num_time_frames, is_finished,
                           audio_queue, threads, readerPc, buffer,
                           frame_index, streamPos, workerPc, calls,
                           dropped, streamFailed, cbRaised>>

\* The waits of the threads that can outlast the 2.0 s of a join: the
\* reader in the stream read or in put(None) on a full queue, the worker
\* inside the callback or the message box.  put(..., timeout=1.0) and
\* get(timeout=1.0) end before the join does.
ReaderCanOutlastJoin(r) ==
    \/ readerPc[r] = "next"
    \/ readerPc[r] = "sentinel" /\ QueueFull
WorkerCanOutlastJoin(r) ==
    workerPc[r] \in {"callback", "terminal", "endError"}

\* self._reader_thread.join() with no timeout
StopJoinReader_NoTimeout ==
    /\ mainPc = "joinReader"
    /\ ~ReaderAlive(threads)
    /\ mainPc' = "joinWorker"
    /\ UNCHANGED <<progVars, ret, histVars, metaVars, dspVars, viewVars>>

\* if self._reader_thread.is_alive(): self._reader_thread.join(timeout=2.0)
\* returns when the thread has ended or when the timeout expires
StopJoinReader ==
    /\ mainPc = "joinReader"
    /\ ~ReaderAlive(threads) \/ ReaderCanOutlastJoin(threads)
    /\ mainPc' = "joinWorker"
    /\ UNCHANGED <<progVars, ret, histVars, metaVars, dspVars, viewVars>>

StopJoinWorker ==
    /\ mainPc = "joinWorker"
    /\ ~WorkerAlive(threads) \/ WorkerCanOutlastJoin(threads)
    /\ mainPc' = "idle"
    /\ ret' = "stopped"
    /\ UNCHANGED <<progVars, histVars, metaVars, dspVars, viewVars>>

\* ---- _reader_worker -----------------------------------------------------
\* for chunk in stream: the stream ends, or yields a block; then the stop
\* check and the append to the buffer
ReaderNext(r) ==
    /\ readerPc[r] = "next"
    /\ IF streamPos[r] >= fileSamples
       THEN /\ readerPc' = [readerPc EXCEPT ![r] = "sentinel"]
            /\ UNCHANGED <<buffer, streamPos>>
       ELSE LET n == Min(ChunkSize, fileSamples - streamPos[r]) IN
            /\ streamPos' = [streamPos EXCEPT ![r] = @ + n]
            /\ IF stop_event
               THEN /\ readerPc' = [readerPc EXCEPT ![r] = "sentinel"]
                    /\ UNCHANGED buffer
               ELSE /\ buffer' = [buffer EXCEPT
                                    ![r] = @ \o Chunk(streamPos[r], n)]
                    /\ readerPc' = [readerPc EXCEPT ![r] = "while"]
    /\ UNCHANGED <<metaVars, dspVars, viewVars, fft_size, hop_length, fileSamples,
                   num_time_frames, is_running,
                   is_finished, stop_event, audio_queue, threads,
                   frame_index, workerPc, calls, mainPc, ret, histVars>>

\* the stream raises and the thread ends without put(None)
ReaderStreamError_NoSentinel(r) ==
    /\ readerPc[r] = "next"
    /\ readerPc' = [readerPc EXCEPT ![r] = "done"]
    /\ streamFailed' = [streamFailed EXCEPT ![r] = TRUE]
    /\ buffer' = [buffer EXCEPT ![r] = <<>>]
    /\ frame_index' = [frame_index EXCEPT ![r] = 0]
    /\ streamPos' = [streamPos EXCEPT ![r] = 0]
    /\ UNCHANGED <<metaVars, dspVars, viewVars, fft_size, hop_length, fileSamples,
                   num_time_frames, is_running,
                   is_finished, stop_event, audio_queue, threads,
                   workerPc, calls, mainPc, ret,
                   dropped, stopCalled, cbRaised>>

\* the stream raises: except Exception, then put(None)
ReaderStreamError(r) ==
    /\ readerPc[r] = "next"
    /\ readerPc' = [readerPc EXCEPT ![r] = "sentinel"]
    /\ streamFailed' = [streamFailed EXCEPT ![r] = TRUE]
    /\ UNCHANGED <<metaVars, dspVars, viewVars, fft_size, hop_length, fileSamples,
                   num_time_frames, is_running,
                   is_finished, stop_event, audio_queue, threads, buffer,
                   frame_index, streamPos, workerPc, calls, mainPc, ret,
                   dropped, stopCalled, cbRaised>>

\* while len(buffer) >= self.fft_size and not self._stop_event.is_set()
ReaderWhile(r) ==
    /\ readerPc[r] = "while"
    /\ readerPc' = [readerPc EXCEPT ![r] =
                      IF Len(buffer[r]) >= fft_size /\ ~stop_event
                      THEN "put" ELSE "next"]
    /\ UNCHANGED <<metaVars, dspVars, viewVars, fft_size, hop_length, fileSamples,
                   num_time_frames, is_running,
                   is_finished, stop_event, audio_queue, threads, buffer,
                   frame_index, streamPos, workerPc, calls, mainPc, ret,
                   histVars>>

\* put((frame_index, frame), timeout=1.0) succeeds
ReaderPut(r) ==
    /\ readerPc[r] = "put"
    /\ ~QueueFull
    /\ audio_queue' = Append(audio_queue,
          FrameItem(r, frame_index[r], SubSeq(buffer[r], 1, fft_size)))
    /\ frame_index' = [frame_index EXCEPT ![r] = @ + 1]
    /\ buffer' = [buffer EXCEPT ![r] = DropFirst(@, hop_length)]
    /\ readerPc' = [readerPc EXCEPT ![r] = "while"]
    /\ UNCHANGED <<metaVars, dspVars, viewVars, fft_size, hop_length, fileSamples,
                   num_time_frames, is_running,
                   is_finished, stop_event, threads, streamPos, workerPc,
                   calls, mainPc, ret, histVars>>

\* queue.Full handled by trying the same frame again
ReaderPutTimeout_Retry(r) ==
    /\ readerPc[r] = "put"
    /\ QueueFull
    /\ readerPc' = [readerPc EXCEPT ![r] = "while"]
    /\ dropped' = [dropped EXCEPT ![r] = @ \cup {buffer[r][1]}]
    /\ UNCHANGED <<metaVars, dspVars, viewVars, fft_size, hop_length, fileSamples,
                   num_time_frames, is_running,
                   is_finished, stop_event, audio_queue, threads, buffer,
                   frame_index, streamPos, workerPc, calls, mainPc, ret,
                   streamFailed, stopCalled, cbRaised>>

\* put((frame_index, frame), timeout=1.0) raises queue.Full
ReaderPutTimeout(r) ==
    /\ readerPc[r] = "put"
    /\ QueueFull
    /\ buffer' = [buffer EXCEPT ![r] = DropFirst(@, hop_length)]
    /\ readerPc' = [readerPc EXCEPT ![r] = "while"]
    /\ dropped' = [dropped EXCEPT ![r] = @ \cup {buffer[r][1]}]
    /\ UNCHANGED <<metaVars, dspVars, viewVars, fft_size, hop_length, fileSamples,
                   num_time_frames, is_running,
                   is_finished, stop_event, audio_queue, threads,
                   frame_index, streamPos, workerPc, calls, mainPc, ret,
                   streamFailed, stopCalled, cbRaised>>

\* the reader ending without put(None)
ReaderSentinel_NoPut(r) ==
    /\ readerPc[r] = "sentinel"
    /\ readerPc' = [readerPc EXCEPT ![r] = "done"]
    /\ buffer' = [buffer EXCEPT ![r] = <<>>]
    /\ frame_index' = [frame_index EXCEPT ![r] = 0]
    /\ streamPos' = [streamPos EXCEPT ![r] = 0]
    /\ UNCHANGED <<metaVars, dspVars, viewVars, fft_size, hop_length, fileSamples,
                   num_time_frames, is_running,
                   is_finished, stop_event, audio_queue, threads, workerPc,
                   calls, mainPc, ret, histVars>>

\* put(None) with a timeout, given up on a full queue like a frame
ReaderSentinel_Droppable(r) ==
    /\ readerPc[r] = "sentinel"
    /\ audio_queue' = IF QueueFull
                       THEN audio_queue
                       ELSE Append(audio_queue, NoneItem(r))
    /\ readerPc' = [readerPc EXCEPT ![r] = "done"]
    /\ buffer' = [buffer EXCEPT ![r] = <<>>]
    /\ frame_index' = [frame_index EXCEPT ![r] = 0]
    /\ streamPos' = [streamPos EXCEPT ![r] = 0]
    /\ UNCHANGED <<metaVars, dspVars, viewVars, fft_size, hop_length, fileSamples,
                   num_time_frames, is_running,
                   is_finished, stop_event, threads, workerPc, calls,
                   mainPc, ret, histVars>>

\* self._audio_queue.put(None): no timeout, waits for a free slot
ReaderSentinel(r) ==
    /\ readerPc[r] = "sentinel"
    /\ ~QueueFull
    /\ audio_queue' = Append(audio_queue, NoneItem(r))
    /\ readerPc' = [readerPc EXCEPT ![r] = "done"]
    \* the thread ends and its locals with it
    /\ buffer' = [buffer EXCEPT ![r] = <<>>]
    /\ frame_index' = [frame_index EXCEPT ![r] = 0]
    /\ streamPos' = [streamPos EXCEPT ![r] = 0]
    /\ UNCHANGED <<metaVars, dspVars, viewVars, fft_size, hop_length, fileSamples,
                   num_time_frames, is_running,
                   is_finished, stop_event, threads, workerPc, calls,
                   mainPc, ret, histVars>>

ReaderStep(r) ==
    \/ ReaderNext(r)
    \/ ReaderStreamError(r)
    \/ ReaderWhile(r)
    \/ ReaderPut(r)
    \/ ReaderPutTimeout(r)
    \/ ReaderSentinel(r)

\* ---- _fft_worker --------------------------------------------------------
\* while not self._stop_event.is_set()
WorkerLoop(r) ==
    /\ workerPc[r] = "loop"
    /\ workerPc' = [workerPc EXCEPT ![r] =
                      IF stop_event THEN "finally" ELSE "get"]
    /\ UNCHANGED <<metaVars, dspVars, viewVars, fft_size, hop_length, fileSamples,
                   num_time_frames, is_running,
                   is_finished, stop_event, audio_queue, threads, readerPc,
                   buffer, frame_index, streamPos, calls, mainPc, ret,
                   histVars>>

\* WorkerGet with the end signal sent at the break as well
WorkerGet_EndSignalAtBreak(r) ==
    /\ workerPc[r] = "get"
    /\ ~QueueEmpty
    /\ audio_queue' = Tail(audio_queue)
    /\ IF IsNone(Head(audio_queue))
       THEN /\ workerPc' = [workerPc EXCEPT ![r] = "finally"]
            /\ calls' = Append(calls, TerminalCall(r))
       ELSE /\ calls' = Append(calls, FrameCall(r, Head(audio_queue)))
            /\ workerPc' = [workerPc EXCEPT ![r] = "callback"]
    /\ UNCHANGED <<metaVars, dspVars, viewVars, fft_size, hop_length, fileSamples,
                   num_time_frames, is_running,
                   is_finished, stop_event, threads, readerPc, buffer,
                   frame_index, streamPos, mainPc, ret, histVars>>

\* item = get(timeout=1.0); None breaks, a frame is transformed and the
\* callback is invoked with it
WorkerGet(r) ==
    /\ workerPc[r] = "get"
    /\ ~QueueEmpty
    /\ audio_queue' = Tail(audio_queue)
    /\ IF IsNone(Head(audio_queue))
       THEN /\ workerPc' = [workerPc EXCEPT ![r] = "finally"]
            /\ UNCHANGED calls
       ELSE /\ calls' = Append(calls, FrameCall(r, Head(audio_queue)))
            /\ workerPc' = [workerPc EXCEPT ![r] = "callback"]
    /\ UNCHANGED <<metaVars, dspVars, viewVars, fft_size, hop_length, fileSamples,
                   num_time_frames, is_running,
                   is_finished, stop_event, threads, readerPc, buffer,
                   frame_index, streamPos, mainPc, ret, histVars>>

\* get(timeout=1.0) raises queue.Empty: continue
WorkerGetTimeout(r) ==
    /\ workerPc[r] = "get"
    /\ QueueEmpty
    /\ workerPc' = [workerPc EXCEPT ![r] = "loop"]
    /\ UNCHANGED <<metaVars, dspVars, viewVars, fft_size, hop_length, fileSamples,
                   num_time_frames, is_running,
                   is_finished, stop_event, audio_queue, threads, readerPc,
                   buffer, frame_index, streamPos, calls, mainPc, ret,
                   histVars>>

\* self.callback(frame_index, magnitudes_db) returns
WorkerCallbackReturn(r) ==
    /\ workerPc[r] = "callback"
    /\ workerPc' = [workerPc EXCEPT ![r] = "loop"]
    /\ UNCHANGED <<metaVars, dspVars, viewVars, fft_size, hop_length, fileSamples,
                   num_time_frames, is_running,
                   is_finished, stop_event, audio_queue, threads, readerPc,
                   buffer, frame_index, streamPos, calls, mainPc, ret,
                   histVars>>

\* self.callback(frame_index, magnitudes_db) raises: the outer except
\* Exception reports it and the loop is left
WorkerCallbackRaise(r) ==
    /\ workerPc[r] = "callback"
    /\ workerPc' = [workerPc EXCEPT ![r] = "finally"]
    /\ cbRaised' = [cbRaised EXCEPT ![r] = TRUE]
    /\ UNCHANGED <<metaVars, dspVars, viewVars, fft_size, hop_length, fileSamples,
                   num_time_frames, is_running,
                   is_finished, stop_event, audio_queue, threads, readerPc,
                   buffer, frame_index, streamPos, calls, mainPc, ret,
                   dropped, streamFailed, stopCalled>>

\* finally without self.is_finished = True
WorkerFinally_NoFlag(r) ==
    /\ workerPc[r] = "finally"
    /\ workerPc' = [workerPc EXCEPT ![r] = "terminal"]
    /\ UNCHANGED <<metaVars, dspVars, viewVars, fft_size, hop_length, fileSamples,
                   num_time_frames, is_running,
                   is_finished, stop_event, audio_queue, threads, readerPc,
                   buffer, frame_index, streamPos, calls, mainPc, ret,
                   histVars>>

\* finally: self.is_finished = True
WorkerFinally(r) ==
    /\ workerPc[r] = "finally"
    /\ is_finished' = TRUE
    /\ workerPc' = [workerPc EXCEPT ![r] = "terminal"]
    /\ UNCHANGED <<metaVars, dspVars, viewVars, fft_size, hop_length, fileSamples,
                   num_time_frames, is_running,
                   stop_event, audio_queue, threads, readerPc, buffer,
                   frame_index, streamPos, calls, mainPc, ret, histVars>>

\* finally: self.callback(-1, np.array([])) returns
WorkerTerminal(r) ==
    /\ workerPc[r] = "terminal"
    /\ calls' = Append(calls, TerminalCall(r))
    /\ workerPc' = [workerPc EXCEPT ![r] = "done"]
    /\ UNCHANGED <<metaVars, dspVars, viewVars, fft_size, hop_length, fileSamples,
                   num_time_frames, is_running,
                   is_finished, stop_event, audio_queue, threads, readerPc,
                   buffer, frame_index, streamPos, mainPc, ret, histVars>>

\* finally: self.callback(-1, np.array([])) raises: except Exception
WorkerTerminalRaise(r) ==
    /\ workerPc[r] = "terminal"
    /\ threads <= MaxEndFailRuns
    /\ calls' = Append(calls, TerminalCall(r))
    /\ workerPc' = [workerPc EXCEPT ![r] = "endError"]
    /\ UNCHANGED <<metaVars, dspVars, viewVars, fft_size, hop_length, fileSamples,
                   num_time_frames, is_running,
                   is_finished, stop_event, audio_queue, threads, readerPc,
                   buffer, frame_index, streamPos, mainPc, ret, histVars>>

\* QMessageBox.critical(None, "Error", "Failed to send end signal to
\* callback") returns and the thread ends
WorkerEndError(r) ==
    /\ workerPc[r] = "endError"
    /\ workerPc' = [workerPc EXCEPT ![r] = "done"]
    /\ UNCHANGED <<metaVars, dspVars, viewVars, fft_size, hop_length, fileSamples,
                   num_time_frames, is_running,
                   is_finished, stop_event, audio_queue, threads, readerPc,
                   buffer, frame_index, streamPos, calls, mainPc, ret,
                   histVars>>

WorkerStep(r) ==
    \/ WorkerLoop(r)
    \/ WorkerGet(r)
    \/ WorkerGetTimeout(r)
    \/ WorkerCallbackReturn(r)
    \/ WorkerCallbackRaise(r)
    \/ WorkerFinally(r)
    \/ WorkerTerminal(r)
    \/ WorkerTerminalRaise(r)
    \/ WorkerEndError(r)

\* ---- the system ---------------------------------------------------------
Next ==
    \/ Start
    \/ StopCall
    \/ StopJoinReader
    \/ StopJoinWorker
    \/ \E r \in Runs : ReaderNext(r)
    \/ \E r \in Runs : ReaderStreamError(r)
    \/ \E r \in Runs : ReaderWhile(r)
    \/ \E r \in Runs : ReaderPut(r)
    \/ \E r \in Runs : ReaderPutTimeout(r)
    \/ \E r \in Runs : ReaderSentinel(r)
    \/ \E r \in Runs : WorkerLoop(r)
    \/ \E r \in Runs : WorkerGet(r)
    \/ \E r \in Runs : WorkerGetTimeout(r)
    \/ \E r \in Runs : WorkerCallbackReturn(r)
    \/ \E r \in Runs : WorkerCallbackRaise(r)
    \/ \E r \in Runs : WorkerFinally(r)
    \/ \E r \in Runs : WorkerTerminal(r)
    \/ \E r \in Runs : WorkerTerminalRaise(r)
    \/ \E r \in Runs : WorkerEndError(r)

Spec == Init /\ [][Next]_vars

\* threads are scheduled fairly, the stream, the callback and the message
\* box return, and join(timeout=2.0) returns
FairSpec ==
    /\ Spec
    /\ \A r \in Runs : WF_vars(ReaderStep(r))
    /\ \A r \in Runs : WF_vars(WorkerStep(r))
    /\ WF_vars(StopJoinReader \/ StopJoinWorker)

\* ---- what the claims speak about ----------------------------------------
\* the invocations made by worker w, in order
CallsBy(w) == SelectSeq(calls, LAMBDA c : c.w = w)
IsTerminal(c) == c.idx = EndIdx
TerminalsBy(w) == Len(SelectSeq(CallsBy(w), IsTerminal))

\* the offset of buffer[0] in the file
BufStart(r) == streamPos[r] - Len(buffer[r])

\* the number of complete frames in a file of n samples
NumFrames(n) == IF n >= fft_size THEN (n - fft_size) \div hop_length + 1 ELSE 0

TypeOK ==
    /\ is_running \in BOOLEAN
    /\ is_finished \in BOOLEAN
    /\ stop_event \in BOOLEAN
    /\ Len(audio_queue) <= QueueMaxSize
    /\ threads \in 0..MaxRuns
    /\ mainPc \in {"idle", "joinReader", "joinWorker"}

\* ---- C1 ------------------------------------------------------------------
\* every worker issues the end signal at most once and nothing after it;
\* the worker of the current run has issued it exactly when it has ended
TerminalOnceAndLast ==
    \A w \in Runs :
        /\ TerminalsBy(w) <= 1
        /\ \A i \in 1..Len(CallsBy(w)) :
              IsTerminal(CallsBy(w)[i]) => i = Len(CallsBy(w))
        /\ w = threads =>
              (TerminalsBy(w) = 1 <=> workerPc[w] \in {"endError", "done"})

\* C1: in every run, however it ends (end of stream, stop(), failure of the
\* reader), the worker issues the end signal (-1, []) exactly once: it
\* reaches its end, where it issues the signal, and it invokes no callback
\* after the signal.
C1_TerminalExactlyOnce ==
    /\ []TerminalOnceAndLast
    /\ \A w \in Runs : (workerPc[w] # "none") ~> (workerPc[w] = "done")

\* a run ended by stop() after a frame was delivered, its end signal issued
C1_Witness ==
    /\ threads >= 1
    /\ stopCalled
    /\ workerPc[threads] = "done"
    /\ Len(CallsBy(threads)) >= 2
    /\ IsTerminal(CallsBy(threads)[Len(CallsBy(threads))])

\* ---- C2 ------------------------------------------------------------------
\* the frame indices worker w has passed to the callback, in order
FrameIdxsBy(w) == SelectSeq(CallsBy(w), LAMBDA c : ~IsTerminal(c))

\* C2: within one run the frame indices passed to the callback are strictly
\* increasing: no index is delivered twice, none after a larger one.
C2_IndicesStrictlyIncreasing ==
    \A w \in Runs :
        \A i, j \in 1..Len(FrameIdxsBy(w)) :
            i < j => FrameIdxsBy(w)[i].idx < FrameIdxsBy(w)[j].idx

\* ---- C3 ------------------------------------------------------------------
\* the invocations a file of n samples is to produce: one per complete
\* frame, in order, then the end signal
ExpectedCalls(w, n) ==
    [i \in 1..NumFrames(n) |->
        [w |-> w, idx |-> i - 1, by |-> w, pos |-> (i - 1) * hop_length,
         n |-> MagnitudesLen]]
    \o <<TerminalCall(w)>>

\* C3: a finite stream of K complete frames, with no enqueue timeout and no
\* stop(), produces exactly the invocations 0 .. K-1 in order and then the
\* end signal.
C3_EveryFrameThenTerminal ==
    ( /\ threads = 1
      /\ workerPc[1] = "done"
      /\ ~stopCalled
      /\ ~streamFailed[1]
      /\ dropped[1] = {} )
    => calls = ExpectedCalls(1, fileSamples)

\* ---- C10 -----------------------------------------------------------------
\* C10: a frame dropped under backpressure leaves a gap: its index is never
\* delivered, and every delivered frame carries the index of its own hop
\* position.
C10_DropsLeaveGaps ==
    \A i \in 1..Len(calls) :
        ~IsTerminal(calls[i]) =>
            /\ calls[i].pos = calls[i].idx * hop_length
            /\ calls[i].idx * hop_length \notin dropped[calls[i].by]

\* ---- C4 ------------------------------------------------------------------
\* the run of thread pair r is complete: sentinel taken, end signal issued,
\* is_finished set, both threads ended
Completed(r) ==
    /\ readerPc[r] = "done"
    /\ workerPc[r] = "done"
    /\ is_finished
    /\ TerminalsBy(r) = 1

\* C4: with a finite stream, a callback that returns and no stop(), the
\* run completes by itself: the sentinel is enqueued and observed, the end
\* signal is issued, is_finished becomes true and both threads end.
C4_NaturalCompletion ==
    (threads = 1 /\ ~stopCalled)
        ~> (stopCalled \/ cbRaised[1] \/ Completed(1))

\* a run that completed by itself after delivering a frame
C4_Witness ==
    /\ threads = 1
    /\ ~stopCalled
    /\ ~cbRaised[1]
    /\ Completed(1)
    /\ Len(calls) >= 2

\* ---- C5 ------------------------------------------------------------------
\* C5: start() on a running analyzer fails with AlreadyRunning and changes
\* nothing: no thread, flag, queue or position of the first run.
C5_StartWhileRunningChangesNothing ==
    [][(is_running /\ Start) =>
          /\ ret' = "AlreadyRunning"
          /\ UNCHANGED <<progVars, mainPc, histVars>>]_vars

\* a refused start() with the first run still at work
C5_Witness ==
    /\ ret = "AlreadyRunning"
    /\ is_running
    /\ threads = 1
    /\ ReaderAlive(1)
    /\ WorkerAlive(1)
    /\ Len(audio_queue) > 0

\* ---- C6 ------------------------------------------------------------------
\* C6: stop() on an analyzer that is not running (never started, or already
\* stopped) changes nothing, so a second stop() in a row causes no further
\* end signal.
C6_StopWhenNotRunningChangesNothing ==
    [][(~is_running /\ StopCall) =>
          /\ ret' = "stopNoop"
          /\ UNCHANGED <<progVars, mainPc, histVars>>]_vars

\* a second stop() after the stop() that ended a run
C6_Witness ==
    /\ ret = "stopNoop"
    /\ stopCalled
    /\ threads >= 1
    /\ TerminalsBy(threads) = 1

\* ---- C7 ------------------------------------------------------------------
\* C7: stop() always returns to its caller.
C7_StopReturns == (mainPc # "idle") ~> (mainPc = "idle")

\* stop() has returned although the reader cannot end: it waits in
\* put(None) on a full queue that nobody empties
C7_Witness ==
    /\ mainPc = "idle"
    /\ ret = "stopped"
    /\ readerPc[threads] = "sentinel"
    /\ QueueFull
    /\ ~WorkerAlive(threads)

\* ---- C8 ------------------------------------------------------------------
\* C8: after stop() on a running analyzer the reader and the worker of that
\* run both end, whatever the queue held; no thread stays blocked on the
\* queue.  Stated on the states in which stop() has returned and no thread
\* can take a step any more: there the threads of the run have ended.
C8_TasksEndAfterStop ==
    ( /\ stopCalled
      /\ mainPc = "idle"
      /\ \A r \in Runs : ~ENABLED ReaderStep(r) /\ ~ENABLED WorkerStep(r) )
    => (~ReaderAlive(threads) /\ ~WorkerAlive(threads))

\* ---- C9 ------------------------------------------------------------------
\* a frame whose put timed out is not put again, and the buffer has moved
\* past it
DropNoRetry ==
    \A r \in Runs :
        /\ \A i \in 1..Len(audio_queue) :
              (audio_queue[i].by = r /\ ~IsNone(audio_queue[i]))
                  => audio_queue[i].frame[1] \notin dropped[r]
        /\ \A i \in 1..Len(calls) :
              calls[i].by = r => calls[i].pos \notin dropped[r]
        /\ readerPc[r] \in {"while", "put", "next"} =>
              \A p \in dropped[r] : BufStart(r) >= p + hop_length

\* C9: the reader never waits for ever to enqueue a frame: the put ends, and
\* a frame whose put timed out is dropped, never retried, the reader going
\* on at the next hop position.
C9_BoundedPutDropNoRetry ==
    /\ []DropNoRetry
    /\ \A r \in Runs : (readerPc[r] = "put") ~> (readerPc[r] # "put")

\* a frame was dropped on a full queue and a later frame was enqueued
C9_Witness ==
    \E r \in Runs :
        /\ dropped[r] # {}
        /\ \E i \in 1..Len(audio_queue) :
              /\ audio_queue[i].by = r
              /\ ~IsNone(audio_queue[i])
              /\ \A p \in dropped[r] : audio_queue[i].frame[1] > p

\* ---- C11 -----------------------------------------------------------------
\* the frames reader r has on the queue, oldest first
QueuedBy(r) ==
    SelectSeq(audio_queue, LAMBDA item : item.by = r /\ ~IsNone(item))

\* C11: the frame the reader gives index i is the fft_size samples from
\* offset i * hop_length of the stream, and the reader gives the indices
\* 0, 1, 2, ... without a gap, whatever the chunks and whether a put
\* succeeded or timed out.
C11_FrameAtIndexOffset ==
    \A r \in Runs :
        /\ \A i \in 1..Len(QueuedBy(r)) :
              QueuedBy(r)[i].frame =
                  Chunk(QueuedBy(r)[i].idx * hop_length, fft_size)
        /\ \A i \in 1..(Len(QueuedBy(r)) - 1) :
              QueuedBy(r)[i + 1].idx = QueuedBy(r)[i].idx + 1

\* ---- C12 -----------------------------------------------------------------
\* The segmentation of _reader_worker by itself: every reader segments the
\* same fileSamples samples, no stop(), every put succeeding and nothing
\* taken from the queue, so that audio_queue lists the frames in the order
\* they were put.  Two readers are compared: the last one is handed the
\* samples as one chunk, the first one in chunks of any lengths.
OneChunkReader == MaxRuns
SegReaders == {1, OneChunkReader}

SegInit ==
    /\ fft_size \in 1..MaxFftSize
    /\ hop_length \in 1..fft_size
    /\ fileSamples \in 0..MaxSamples
    /\ is_running = FALSE
    /\ is_finished = FALSE
    /\ stop_event = FALSE
    /\ audio_queue = <<>>
    /\ threads = 0
    /\ readerPc = [r \in Runs |->
                      IF r \in SegReaders THEN "next" ELSE "none"]
    /\ buffer = [r \in Runs |-> <<>>]
    /\ frame_index = [r \in Runs |-> 0]
    /\ streamPos = [r \in Runs |-> 0]
    /\ workerPc = [r \in Runs |-> "none"]
    /\ mainPc = "idle"
    /\ ret = "none"
    /\ num_time_frames = 0
    /\ calls = <<>>
    /\ dropped = [r \in Runs |-> {}]
    /\ streamFailed = [r \in Runs |-> FALSE]
    /\ stopCalled = FALSE
    /\ cbRaised = [r \in Runs |-> FALSE]
    /\ max_freq = NoMaxFreq
    /\ fileRate = MaxRate
    /\ MetaNotLoaded
    /\ DspIdle
    /\ ViewNotConstructed

\* buffer = chunk: the samples left from the chunk before are lost
SegChunk_NoResidual(r) ==
    /\ readerPc[r] = "next"
    /\ streamPos[r] < fileSamples
    /\ \E n \in 1..(fileSamples - streamPos[r]) :
          /\ r = OneChunkReader => n = fileSamples
          /\ streamPos' = [streamPos EXCEPT ![r] = @ + n]
          /\ buffer' = [buffer EXCEPT ![r] = Chunk(streamPos[r], n)]
    /\ readerPc' = [readerPc EXCEPT ![r] = "while"]
    /\ UNCHANGED <<metaVars, dspVars, viewVars, fft_size, hop_length, fileSamples,
                   num_time_frames, is_running,
                   is_finished, stop_event, audio_queue, threads,
                   frame_index, workerPc, calls, mainPc, ret, histVars>>

\* for chunk in stream: buffer = np.concatenate([buffer, chunk]), for a
\* chunk of any length
SegChunk(r) ==
    /\ readerPc[r] = "next"
    /\ streamPos[r] < fileSamples
    /\ \E n \in 1..(fileSamples - streamPos[r]) :
          /\ r = OneChunkReader => n = fileSamples
          /\ streamPos' = [streamPos EXCEPT ![r] = @ + n]
          /\ buffer' = [buffer EXCEPT ![r] = @ \o Chunk(streamPos[r], n)]
    /\ readerPc' = [readerPc EXCEPT ![r] = "while"]
    /\ UNCHANGED <<metaVars, dspVars, viewVars, fft_size, hop_length, fileSamples,
                   num_time_frames, is_running,
                   is_finished, stop_event, audio_queue, threads,
                   frame_index, workerPc, calls, mainPc, ret, histVars>>

\* frame = buffer[:self.fft_size]; the put succeeds; frame_index += 1;
\* buffer = buffer[self.hop_length:]
SegPut(r) ==
    /\ readerPc[r] = "put"
    /\ audio_queue' = Append(audio_queue,
          FrameItem(r, frame_index[r], SubSeq(buffer[r], 1, fft_size)))
    /\ frame_index' = [frame_index EXCEPT ![r] = @ + 1]
    /\ buffer' = [buffer EXCEPT ![r] = DropFirst(@, hop_length)]
    /\ readerPc' = [readerPc EXCEPT ![r] = "while"]
    /\ UNCHANGED <<metaVars, dspVars, viewVars, fft_size, hop_length, fileSamples,
                   num_time_frames, is_running,
                   is_finished, stop_event, threads, streamPos, workerPc,
                   calls, mainPc, ret, histVars>>

\* the stream is exhausted: the for loop ends
SegEnd(r) ==
    /\ readerPc[r] = "next"
    /\ streamPos[r] >= fileSamples
    /\ readerPc' = [readerPc EXCEPT ![r] = "done"]
    /\ UNCHANGED <<metaVars, dspVars, viewVars, fft_size, hop_length, fileSamples,
                   num_time_frames, is_running,
                   is_finished, stop_event, audio_queue, threads, buffer,
                   frame_index, streamPos, workerPc, calls, mainPc, ret,
                   histVars>>

SegNext ==
    \/ \E r \in SegReaders : SegChunk(r)
    \/ \E r \in SegReaders : ReaderWhile(r)
    \/ \E r \in SegReaders : SegPut(r)
    \/ \E r \in SegReaders : SegEnd(r)

SegSpec == SegInit /\ [][SegNext]_vars

\* the (index, samples) frames reader r has produced, in order
Frames(r) ==
    [i \in 1..Len(QueuedBy(r)) |->
        <<QueuedBy(r)[i].idx, QueuedBy(r)[i].frame>>]

IsPrefix(s, t) == Len(s) <= Len(t) /\ s = SubSeq(t, 1, Len(s))

\* C12: the frames do not depend on the chunk boundaries.  A reader handed
\* the stream in chunks of any lengths produces the (index, samples) frames
\* of the reader handed all samples as one chunk: the same ones in the
\* same order once both have read the stream, a prefix of them before.
\* What is left of a chunk is kept for the next one, every frame has
\* fft_size samples, and the samples left at the end are no frame.
C12_ChunkBoundaryIndependence ==
    \A r \in SegReaders :
        /\ \A i \in 1..Len(Frames(r)) : Len(Frames(r)[i][2]) = fft_size
        /\ readerPc[OneChunkReader] = "done" =>
              /\ IsPrefix(Frames(r), Frames(OneChunkReader))
              /\ readerPc[r] = "done" =>
                    Frames(r) = Frames(OneChunkReader)

\* the one-chunk reader is done; another reader has produced a frame, holds
\* a residual shorter than a frame and has a chunk still to come
C12_Witness ==
    /\ readerPc[OneChunkReader] = "done"
    /\ \E r \in SegReaders \ {OneChunkReader} :
          /\ readerPc[r] = "next"
          /\ streamPos[r] < fileSamples
          /\ Frames(r) # <<>>
          /\ Len(buffer[r]) > 0
          /\ Len(buffer[r]) < fft_size

\* ---- C13 -----------------------------------------------------------------
\* C13: the num_time_frames a successful start() returns is
\* floor((total_samples - fft_size) / hop_length) + 1 for a file of at least
\* fft_size samples and 0, never a negative number, for a shorter one.
C13_NumTimeFrames ==
    threads >= 1 =>
        /\ num_time_frames = NumFrames(fileSamples)
        /\ num_time_frames >= 0

\* ---- C14 -----------------------------------------------------------------
\* the run of thread pair r has ended by the exhaustion of its stream: no
\* stop(), no failure of the stream or of the callback
NaturallyFinished(r) ==
    /\ Completed(r)
    /\ ~stopCalled
    /\ ~streamFailed[r]
    /\ ~cbRaised[r]

\* C14: a run that ended by the exhaustion of the input is finished without
\* stop(), and a start() after it is not refused with AlreadyRunning: it
\* begins a new run.
C14_StartAfterNaturalEnd ==
    [][(threads >= 1 /\ NaturallyFinished(threads) /\ Start)
          => ret' # "AlreadyRunning"]_vars

\* ---- C15 -----------------------------------------------------------------
\* C15: start() after a finished or stopped run resets everything: the
\* worker of the new run never takes from the queue a frame or a None that
\* a reader of an earlier run has put, and the first frame of its own
\* reader that it delivers has index 0.
C15_FullResetOnStart ==
    /\ [][\A w \in Runs :
            WorkerGet(w) => Head(audio_queue).by >= w]_vars
    /\ [](\A w \in Runs :
            LET own == SelectSeq(FrameIdxsBy(w), LAMBDA c : c.by = w)
            IN  own # <<>> => own[1].idx = 0)

\* ---- C16 -----------------------------------------------------------------
\* C16: stop() after a run that completed by itself does nothing: it
\* returns without an error, no callback is invoked and no state of the
\* analyzer changes.
C16_StopAfterNaturalEndChangesNothing ==
    [][(threads >= 1 /\ NaturallyFinished(threads) /\ StopCall)
          => UNCHANGED <<progVars, mainPc>>]_vars

\* ---- C17 -----------------------------------------------------------------
\* C17: when the metadata cannot be loaded, start() reports it to its
\* caller at once and leaves the analyzer as it was: not running, no thread
\* created, no callback invoked; and an analyzer no start() of which has
\* succeeded has no thread and has invoked no callback.
C17_FailedProbeLeavesIdle ==
    /\ [][(Start /\ ret' = "MetadataUnavailable") =>
            /\ ~is_running'
            /\ UNCHANGED <<progVars, mainPc, histVars>>]_vars
    /\ [](threads = 0 =>
            /\ ~is_running
            /\ calls = <<>>
            /\ \A r \in Runs : readerPc[r] = "none" /\ workerPc[r] = "none")

\* start() has failed on the metadata of a fresh analyzer
C17_Witness ==
    /\ ret = "MetadataUnavailable"
    /\ threads = 0
    /\ ~is_running
    /\ calls = <<>>

\* ---- C18 -----------------------------------------------------------------
\* C18: start() on an input of length zero fails with MetadataUnavailable
\* and creates no thread.  (A sample rate of 0 makes 1/self.sample_rate
\* raise, which is the failing probe of Start.)
C18_EmptyInputRefused ==
    [][(~is_running /\ fileSamples = 0 /\ Start) =>
          /\ ret' = "MetadataUnavailable"
          /\ UNCHANGED <<threads, readerPc, workerPc>>]_vars

\* ---- C19 -----------------------------------------------------------------
\* C19: a callback that raises on a frame does not end the worker: the
\* worker is back in its loop, where it takes the next frame.
C19_CallbackFailureKeepsLoop ==
    [][\A w \in Runs :
          WorkerCallbackRaise(w) => workerPc'[w] = "loop"]_vars

MetaInit ==
    /\ fft_size \in 1..MetaMaxFftSize
    /\ hop_length \in 1..fft_size
    /\ fileSamples \in 0..MaxSamples
    /\ fileRate \in 1..MaxRate
    /\ max_freq \in {NoMaxFreq} \cup 0..MaxMaxFreq
    /\ is_running = FALSE
    /\ is_finished = FALSE
    /\ stop_event = FALSE
    /\ audio_queue = <<>>
    /\ threads = 0
    /\ readerPc = [r \in Runs |-> "none"]
    /\ buffer = [r \in Runs |-> <<>>]
    /\ frame_index = [r \in Runs |-> 0]
    /\ streamPos = [r \in Runs |-> 0]
    /\ workerPc = [r \in Runs |-> "none"]
    /\ mainPc = "idle"
    /\ ret = "none"
    /\ num_time_frames = 0
    /\ calls = <<>>
    /\ dropped = [r \in Runs |-> {}]
    /\ streamFailed = [r \in Runs |-> FALSE]
    /\ stopCalled = FALSE
    /\ cbRaised = [r \in Runs |-> FALSE]
    /\ MetaNotLoaded
    /\ DspIdle
    /\ ViewNotConstructed

\* the caller changes the returned 'frequencies' in place: fills the
\* array with zeros, or resizes it to no element
MutateFrequencies ==
    /\ ret = "started"
    /\ \E resize \in BOOLEAN :
          arrays' = [arrays EXCEPT ![metadata.frequencies] =
                        IF resize THEN <<>> ELSE [k \in 1..Len(@) |-> 0]]
    /\ UNCHANGED <<progVars, mainPc, ret, histVars, dspVars, viewVars,
                   max_freq, fileRate,
                   sample_rate, duration, total_samples, freq_bins,
                   metadata>>

MetaNext ==
    \/ Start
    \/ MutateFrequencies
    \/ ReaderNext(1)
    \/ ReaderWhile(1)
    \/ ReaderPut(1)
    \/ ReaderSentinel(1)
    \/ WorkerLoop(1)
    \/ WorkerGet(1)
    \/ WorkerGetTimeout(1)
    \/ WorkerCallbackReturn(1)
    \/ WorkerFinally(1)
    \/ WorkerTerminal(1)

MetaSpec == MetaInit /\ [][MetaNext]_vars

\* the frequencies the claims give for the file: the bins k * sample_rate
\* / fft_size for k = 0..fft_size // 2 (as numerators over fft_size), and,
\* when max_freq is set, those of them below max_freq
IsSet(x) == x # NoMaxFreq
BinsBelowMaxFreq ==
    LET bins == [k \in 1..(fft_size \div 2 + 1) |-> (k - 1) * fileRate]
        Below(f) == f < max_freq * fft_size
    IN  IF IsSet(max_freq) THEN SelectSeq(bins, Below) ELSE bins

\* ---- C23 -----------------------------------------------------------------
\* C23: every magnitude vector passed to the callback with an index >= 0
\* has the length of the 'frequencies' start() returned for the run,
\* whatever max_freq is.
C23_MagnitudesMatchFrequencies ==
    \A i \in 1..Len(calls) :
        calls[i].idx >= 0 => calls[i].n = Len(FreqBins)

\* a frame was delivered cut to fewer magnitudes than the FFT gives, and
\* to at least one
C23_Witness ==
    /\ Truthy(max_freq)
    /\ \E i \in 1..Len(calls) :
          /\ calls[i].idx >= 0
          /\ calls[i].n < SpectrumLen
          /\ calls[i].n > 0

\* ---- C24 -----------------------------------------------------------------
\* C24: the frequencies start() returns are the ascending bins
\* k * sample_rate / fft_size, k = 0..fft_size // 2, and when max_freq is
\* set exactly those of them that are below max_freq.
C24_ReturnedBinsBelowMaxFreq ==
    [][threads' = threads + 1
          => arrays'[metadata'.frequencies] = BinsBelowMaxFreq]_vars

\* ---- C25 -----------------------------------------------------------------
\* C25: the dict of a successful start() has the fields sample_rate,
\* duration, total_samples, fft_size, hop_length and frequencies (and
\* num_time_frames); sample_rate and duration are those of the file,
\* total_samples is duration * sample_rate cut to an integer, fft_size and
\* hop_length are the configured ones.
C25_ReturnedSnapshot ==
    threads >= 1 =>
        /\ DOMAIN metadata = {"sample_rate", "duration", "total_samples",
                              "fft_size", "hop_length", "frequencies"}
        /\ metadata.sample_rate = fileRate
        /\ metadata.duration = <<fileSamples, fileRate>>
        /\ metadata.total_samples =
              (metadata.duration[1] * metadata.sample_rate)
                  \div metadata.duration[2]
        /\ metadata.fft_size = fft_size
        /\ metadata.hop_length = hop_length
        /\ metadata.frequencies \in DOMAIN arrays

\* start() has returned the dict for a file whose duration is not a whole
\* number of seconds
C25_Witness ==
    /\ threads = 1
    /\ ret = "started"
    /\ fileSamples % fileRate # 0
    /\ fileSamples > fileRate
    /\ metadata.total_samples = fileSamples

\* ---- C29 -----------------------------------------------------------------
\* C29: 'frequencies' of the returned dict is a copy: whatever the caller
\* does to it, self._freq_bins stays as start() set it up, and so does
\* the length the worker cuts the magnitudes to.
C29_CallerMutationLeavesBins ==
    threads >= 1 =>
        /\ metadata.frequencies # freq_bins
        /\ arrays[freq_bins] = FreqBins
        /\ MagnitudesLen = Len(FreqBins)

\* the caller has emptied the returned array of a run that cuts the
\* magnitudes, and the worker is delivering a frame
C29_Witness ==
    /\ threads = 1
    /\ Truthy(max_freq)
    /\ Len(FreqBins) \in 1..(SpectrumLen - 1)
    /\ arrays[metadata.frequencies] = <<>>
    /\ workerPc[1] = "callback"
    /\ Len(calls) >= 2

\* ---- the magnitudes of one frame ---------------------------------------
\* The worker's conversion of one frame, step by step.  Samples and
\* magnitudes are whole multiples of 1e-10, the floor of the clamp, so the
\* floor itself is 1.  A dB value is finite, minus infinity or NaN.
Finite(v) == [kind |-> "finite", v |-> v]
MinusInf == [kind |-> "-inf", v |-> 0]
NaN == [kind |-> "nan", v |-> 0]

Abs(x) == IF x < 0 THEN -x ELSE x
Maximum(a, b) == IF a < b THEN b ELSE a

RECURSIVE SumSeq(_)
SumSeq(x) == IF x = <<>> THEN 0 ELSE Head(x) + SumSeq(Tail(x))

\* signal.windows.hann(n), 0.5 - 0.5 * cos(2 * pi * k / (n - 1)): whole
\* numbers for the sizes of the model
Hann(n) ==
    CASE n = 1 -> <<1>>
      [] n = 2 -> <<0, 0>>
      [] n = 3 -> <<0, 1, 0>>

\* np.abs(np.fft.rfft(x)) for a frame x with at most one sample that is
\* not zero, as every frame windowed by Hann(n) is: each of the
\* n // 2 + 1 magnitudes is the size of that sample
AbsRfft(x) == [k \in 1..(Len(x) \div 2 + 1) |-> Abs(SumSeq(x))]

\* the whole part of log10(m) for m >= 1
RECURSIVE ILog10(_)
ILog10(m) == IF m < 10 THEN 0 ELSE 1 + ILog10(m \div 10)

\* np.log10 of m * 1e-10, rounded down to a whole number: minus infinity
\* for 0, NaN below 0
Log10(m) ==
    IF m < 0 THEN NaN
    ELSE IF m = 0 THEN MinusInf
    ELSE Finite(ILog10(m) - FloorExponent)

\* 20 * x
TimesTwenty(x) == IF x.kind = "finite" THEN Finite(20 * x.v) ELSE x

DspInit ==
    /\ fft_size \in 1..MaxFftSize
    /\ hop_length \in 1..fft_size
    /\ fileSamples = 0
    /\ is_running = FALSE
    /\ is_finished = FALSE
    /\ stop_event = FALSE
    /\ audio_queue = <<>>
    /\ threads = 0
    /\ readerPc = [r \in Runs |-> "none"]
    /\ buffer = [r \in Runs |-> <<>>]
    /\ frame_index = [r \in Runs |-> 0]
    /\ streamPos = [r \in Runs |-> 0]
    /\ workerPc = [r \in Runs |-> "none"]
    /\ mainPc = "idle"
    /\ ret = "none"
    /\ num_time_frames = 0
    /\ calls = <<>>
    /\ dropped = [r \in Runs |-> {}]
    /\ streamFailed = [r \in Runs |-> FALSE]
    /\ stopCalled = FALSE
    /\ cbRaised = [r \in Runs |-> FALSE]
    /\ max_freq = NoMaxFreq
    /\ fileRate = MaxRate
    /\ MetaNotLoaded
    /\ ViewNotConstructed
    /\ dspPc = "window"
    /\ audio_frame \in [1..fft_size -> -MaxAmplitude..MaxAmplitude]
    /\ windowed_frame = <<>>
    /\ magnitudes = <<>>
    /\ magnitudes_db = <<>>

\* windowed_frame = audio_frame * self._window_func
DspWindow ==
    /\ dspPc = "window"
    /\ windowed_frame' =
          [i \in 1..fft_size |-> audio_frame[i] * Hann(fft_size)[i]]
    /\ dspPc' = "fft"
    /\ UNCHANGED <<progVars, mainPc, ret, histVars, metaVars, viewVars,
                   audio_frame, magnitudes, magnitudes_db>>

\* fft_result = np.fft.rfft(windowed_frame); magnitudes = np.abs(fft_result)
DspFft ==
    /\ dspPc = "fft"
    /\ magnitudes' = AbsRfft(windowed_frame)
    /\ dspPc' = "clamp"
    /\ UNCHANGED <<progVars, mainPc, ret, histVars, metaVars, viewVars,
                   audio_frame, windowed_frame, magnitudes_db>>

\* the conversion without the clamp
DspClamp_NoFloor ==
    /\ dspPc = "clamp"
    /\ dspPc' = "log"
    /\ UNCHANGED <<progVars, mainPc, ret, histVars, metaVars, viewVars,
                   audio_frame, windowed_frame, magnitudes, magnitudes_db>>

\* magnitudes = np.maximum(magnitudes, 1e-10)
DspClamp ==
    /\ dspPc = "clamp"
    /\ magnitudes' = [k \in DOMAIN magnitudes |-> Maximum(magnitudes[k], 1)]
    /\ dspPc' = "log"
    /\ UNCHANGED <<progVars, mainPc, ret, histVars, metaVars, viewVars,
                   audio_frame, windowed_frame, magnitudes_db>>

\* magnitudes_db = 20 * np.log10(magnitudes)
DspLog ==
    /\ dspPc = "log"
    /\ magnitudes_db' =
          [k \in DOMAIN magnitudes |-> TimesTwenty(Log10(magnitudes[k]))]
    /\ dspPc' = "done"
    /\ UNCHANGED <<progVars, mainPc, ret, histVars, metaVars, viewVars,
                   audio_frame, windowed_frame, magnitudes>>

DspNext ==
    \/ DspWindow
    \/ DspFft
    \/ DspClamp
    \/ DspLog

DspSpec == DspInit /\ [][DspNext]_vars

\* 20 * log10(1e-10)
FloorDb == -20 * FloorExponent

\* ---- C30 -----------------------------------------------------------------
\* C30: for a frame of zeros every value of magnitudes_db is finite
\* (neither NaN nor minus infinity) and at or below the floor in dB: the
\* clamp before the logarithm makes it the floor.
C30_SilenceGivesFloor ==
    (dspPc = "done" /\ \A i \in 1..fft_size : audio_frame[i] = 0)
        => /\ Len(magnitudes_db) = SpectrumLen
           /\ \A k \in 1..Len(magnitudes_db) :
                 /\ magnitudes_db[k].kind = "finite"
                 /\ magnitudes_db[k].v <= FloorDb

\* a frame of zeros of the largest size has been converted
C30_Witness ==
    /\ dspPc = "done"
    /\ fft_size = MaxFftSize
    /\ \A i \in 1..fft_size : audio_frame[i] = 0
    /\ magnitudes_db[1] = Finite(FloorDb)

\* ---- SpectrumViewer ------------------------------------------------------
\* A SpectrumViewer (src/src/gui/spectrum_viewer.py) constructed with a
\* path: its analyzer runs with the viewer's _on_fft_result_threaded as
\* callback.  The callback runs on the worker thread and only posts to the
\* GUI thread, which runs one slot at a time from its event queue.

\* a cell of the buffer as np.full(..., -140.0) leaves it, and a cell
\* written from the frame with index idx that reader `by` produced
Fill == [idx |-> EndIdx, by |-> 0]
Cell(idx, by) == [idx |-> idx, by |-> by]

\* the events posted to the GUI thread
FrameEvent(c) == [kind |-> "frame", idx |-> c.idx, n |-> c.n, by |-> c.by]
UpdateEvent == [kind |-> "update", idx |-> EndIdx, n |-> 0, by |-> 0]
\* by names the worker whose end signal posted the event; the viewer
\* itself keeps no such record
CompleteEvent(r) == [kind |-> "complete", idx |-> EndIdx, n |-> 0, by |-> r]

\* np.full((num_time_frames, num_freq_bins), -140.0): raises for a
\* negative num_time_frames, and the except clause leaves
\* spectrogram_data None
AllocateBuffer(rows, cols) ==
    IF rows < 0
    THEN NoBuffer
    ELSE [allocated |-> TRUE,
          rows |-> [i \in 1..rows |-> [k \in 1..cols |-> Fill]]]

\* the fields of the analyzer after its start() has succeeded
MetadataLoaded ==
    /\ duration = <<fileSamples, fileRate>>
    /\ sample_rate = fileRate
    /\ total_samples = TotalSamples(duration, sample_rate)
    /\ freq_bins = 1
    /\ arrays = [ref \in 1..ReturnedFrequencies(freq_bins) |-> FreqBins]
    /\ metadata = [sample_rate |-> sample_rate,
                   duration |-> duration,
                   total_samples |-> total_samples,
                   fft_size |-> fft_size,
                   hop_length |-> hop_length,
                   frequencies |-> ReturnedFrequencies(freq_bins)]

\* __init__ with a path, _start_analysis() included: the analyzer is
\* started and the buffer allocated from the returned metadata
ViewInit ==
    /\ fft_size \in 1..MaxFftSize
    /\ hop_length \in 1..fft_size
    /\ fileSamples \in 0..MaxSamples
    /\ is_running = TRUE
    /\ is_finished = FALSE
    /\ stop_event = FALSE
    /\ audio_queue = <<>>
    /\ threads = 1
    /\ readerPc = [r \in Runs |-> IF r = 1 THEN "next" ELSE "none"]
    /\ buffer = [r \in Runs |-> <<>>]
    /\ frame_index = [r \in Runs |-> 0]
    /\ streamPos = [r \in Runs |-> 0]
    /\ workerPc = [r \in Runs |-> IF r = 1 THEN "loop" ELSE "none"]
    /\ mainPc = "idle"
    /\ ret = "started"
    /\ num_time_frames = NumTimeFrames
    /\ calls = <<>>
    /\ dropped = [r \in Runs |-> {}]
    /\ streamFailed = [r \in Runs |-> FALSE]
    /\ stopCalled = FALSE
    /\ cbRaised = [r \in Runs |-> FALSE]
    /\ max_freq = NoMaxFreq
    /\ fileRate = MaxRate
    /\ MetadataLoaded
    /\ DspIdle
    /\ spectrogram_data = AllocateBuffer(num_time_frames, Len(FreqBins))
    /\ data_lock = "free"
    /\ last_displayed_frame = 0
    /\ events = <<>>
    /\ guiPc = "idle"
    /\ guiArgs = NoArgs

\* the callback invocation worker r is in
CurrentCall(r) == CallsBy(r)[Len(CallsBy(r))]

\* _on_fft_result_threaded(frame_index, magnitudes_db) on the worker
\* thread, frame_index >= 0: frame_received.emit(...), delivered to the
\* GUI thread through its event queue
OnFftResultThreaded(r) ==
    /\ workerPc[r] = "callback"
    /\ events' = Append(events, FrameEvent(CurrentCall(r)))
    /\ workerPc' = [workerPc EXCEPT ![r] = "loop"]
    /\ UNCHANGED <<metaVars, dspVars, fft_size, hop_length, fileSamples,
                   num_time_frames, is_running, is_finished, stop_event,
                   audio_queue, threads, readerPc, buffer, frame_index,
                   streamPos, calls, mainPc, ret, histVars,
                   spectrogram_data, data_lock, last_displayed_frame,
                   guiPc, guiArgs>>

\* the end signal, _on_fft_result_threaded(-1, ...):
\* QTimer.singleShot(0, self._on_analysis_complete)
OnFftEndThreaded(r) ==
    /\ workerPc[r] = "terminal"
    /\ calls' = Append(calls, TerminalCall(r))
    /\ events' = Append(events, CompleteEvent(r))
    /\ workerPc' = [workerPc EXCEPT ![r] = "done"]
    /\ UNCHANGED <<metaVars, dspVars, fft_size, hop_length, fileSamples,
                   num_time_frames, is_running, is_finished, stop_event,
                   audio_queue, threads, readerPc, buffer, frame_index,
                   streamPos, mainPc, ret, histVars,
                   spectrogram_data, data_lock, last_displayed_frame,
                   guiPc, guiArgs>>

\* the GUI thread takes the next event and enters its slot
GuiDispatch ==
    /\ guiPc = "idle"
    /\ events # <<>>
    /\ guiArgs' = Head(events)
    /\ events' = Tail(events)
    /\ guiPc' = CASE Head(events).kind = "frame" -> "received"
                  [] Head(events).kind = "update" -> "update"
                  [] Head(events).kind = "complete" -> "complete"
    /\ UNCHANGED <<progVars, mainPc, ret, histVars, metaVars, dspVars,
                   spectrogram_data, data_lock, last_displayed_frame>>

\* _on_frame_received: return if there is no buffer; the test of
\* 0 <= frame_index < self.spectrogram_data.shape[0]
OnFrameReceived ==
    /\ guiPc = "received"
    /\ IF ~spectrogram_data.allocated
       THEN guiPc' = "idle" /\ guiArgs' = NoArgs
       ELSE /\ guiPc' = IF /\ 0 <= guiArgs.idx
                           /\ guiArgs.idx < Len(spectrogram_data.rows)
                        THEN "acquire"
                        ELSE "post"
            /\ UNCHANGED guiArgs
    /\ UNCHANGED <<progVars, mainPc, ret, histVars, metaVars, dspVars,
                   spectrogram_data, data_lock, last_displayed_frame,
                   events>>

\* the row written without taking the lock
GuiAcquire_NoLock ==
    /\ guiPc = "acquire"
    /\ guiPc' = "write"
    /\ UNCHANGED <<progVars, mainPc, ret, histVars, metaVars, dspVars,
                   spectrogram_data, data_lock, last_displayed_frame,
                   events, guiArgs>>

\* with self.data_lock: entered
GuiAcquire ==
    /\ guiPc = "acquire"
    /\ data_lock = "free"
    /\ data_lock' = "gui"
    /\ guiPc' = "write"
    /\ UNCHANGED <<progVars, mainPc, ret, histVars, metaVars, dspVars,
                   spectrogram_data, last_displayed_frame, events,
                   guiArgs>>

\* the frame written into every row of the buffer
GuiWriteRow_AllRows ==
    /\ guiPc = "write"
    /\ spectrogram_data' =
          [spectrogram_data EXCEPT !.rows =
             [i \in 1..Len(spectrogram_data.rows) |->
                [k \in 1..Len(spectrogram_data.rows[i]) |->
                    IF k <= guiArgs.n
                    THEN Cell(guiArgs.idx, guiArgs.by)
                    ELSE spectrogram_data.rows[i][k]]]]
    /\ last_displayed_frame' =
          Maximum(last_displayed_frame, guiArgs.idx + 1)
    /\ guiPc' = "release"
    /\ UNCHANGED <<progVars, mainPc, ret, histVars, metaVars, dspVars,
                   data_lock, events, guiArgs>>

\* _last_displayed_frame = max(self._last_displayed_frame, frame_index)
GuiWriteRow_NoPlusOne ==
    /\ guiPc = "write"
    /\ LET row == spectrogram_data.rows[guiArgs.idx + 1]
           end_idx == Min(guiArgs.n, Len(row))
       IN  spectrogram_data' =
             [spectrogram_data EXCEPT !.rows[guiArgs.idx + 1] =
                [k \in 1..Len(row) |->
                    IF k <= end_idx
                    THEN Cell(guiArgs.idx, guiArgs.by)
                    ELSE row[k]]]
    /\ last_displayed_frame' =
          Maximum(last_displayed_frame, guiArgs.idx)
    /\ guiPc' = "release"
    /\ UNCHANGED <<progVars, mainPc, ret, histVars, metaVars, dspVars,
                   data_lock, events, guiArgs>>

\* the body of the with: the first min(len(magnitudes_db), shape[1])
\* entries of row frame_index, and _last_displayed_frame
GuiWriteRow ==
    /\ guiPc = "write"
    /\ LET row == spectrogram_data.rows[guiArgs.idx + 1]
           end_idx == Min(guiArgs.n, Len(row))
       IN  spectrogram_data' =
             [spectrogram_data EXCEPT !.rows[guiArgs.idx + 1] =
                [k \in 1..Len(row) |->
                    IF k <= end_idx
                    THEN Cell(guiArgs.idx, guiArgs.by)
                    ELSE row[k]]]
    /\ last_displayed_frame' =
          Maximum(last_displayed_frame, guiArgs.idx + 1)
    /\ guiPc' = "release"
    /\ UNCHANGED <<progVars, mainPc, ret, histVars, metaVars, dspVars,
                   data_lock, events, guiArgs>>

\* with self.data_lock: left
GuiRelease ==
    /\ guiPc = "release"
    /\ data_lock' = "free"
    /\ guiPc' = "post"
    /\ UNCHANGED <<progVars, mainPc, ret, histVars, metaVars, dspVars,
                   spectrogram_data, last_displayed_frame, events,
                   guiArgs>>

\* QTimer.singleShot(0, self._update_display), and the slot returns
GuiPostUpdate ==
    /\ guiPc = "post"
    /\ events' = Append(events, UpdateEvent)
    /\ guiPc' = "idle"
    /\ guiArgs' = NoArgs
    /\ UNCHANGED <<progVars, mainPc, ret, histVars, metaVars, dspVars,
                   spectrogram_data, data_lock, last_displayed_frame>>

\* _update_display: reads spectrogram_data[:_last_displayed_frame] and
\* the metadata, without the lock
UpdateDisplay ==
    /\ guiPc = "update"
    /\ guiPc' = "idle"
    /\ guiArgs' = NoArgs
    /\ UNCHANGED <<progVars, mainPc, ret, histVars, metaVars, dspVars,
                   spectrogram_data, data_lock, last_displayed_frame,
                   events>>

\* _on_analysis_complete: _update_display() and analysis_complete.emit()
OnAnalysisComplete ==
    /\ guiPc = "complete"
    /\ guiPc' = "idle"
    /\ guiArgs' = NoArgs
    /\ UNCHANGED <<progVars, mainPc, ret, histVars, metaVars, dspVars,
                   spectrogram_data, data_lock, last_displayed_frame,
                   events>>

GuiStep ==
    \/ GuiDispatch
    \/ OnFrameReceived
    \/ GuiAcquire
    \/ GuiWriteRow
    \/ GuiRelease
    \/ GuiPostUpdate
    \/ UpdateDisplay
    \/ OnAnalysisComplete

ViewNext ==
    \/ ReaderNext(1)
    \/ ReaderWhile(1)
    \/ ReaderPut(1)
    \/ ReaderPutTimeout(1)
    \/ ReaderSentinel(1)
    \/ WorkerLoop(1)
    \/ WorkerGet(1)
    \/ WorkerGetTimeout(1)
    \/ WorkerFinally(1)
    \/ OnFftResultThreaded(1)
    \/ OnFftEndThreaded(1)
    \/ GuiStep

ViewSpec == ViewInit /\ [][ViewNext]_vars

\* ---- load_audio, closeEvent ---------------------------------------------
\* if self.analyzer: self.analyzer.stop(), as the first statement of a
\* slot of the GUI thread: stop() up to its first join.  The GUI thread
\* stays in the slot (pc) while stop() waits.
ViewerStop(pc) ==
    /\ guiPc = "idle"
    /\ mainPc = "idle"
    /\ guiPc' = pc
    /\ IF ~is_running
       THEN /\ ret' = "stopNoop"
            /\ UNCHANGED <<stop_event, is_running, mainPc, stopCalled>>
       ELSE /\ stop_event' = TRUE
            /\ is_running' = FALSE
            /\ mainPc' = "joinReader"
            /\ ret' = "stopping"
            /\ stopCalled' = TRUE
    /\ UNCHANGED <<metaVars, dspVars, fft_size, hop_length, fileSamples,
                   num_time_frames, is_finished, audio_queue, threads,
                   readerPc, buffer, frame_index, streamPos, workerPc,
                   calls, dropped, streamFailed, cbRaised,
                   spectrogram_data, data_lock, last_displayed_frame,
                   events, guiArgs>>

\* load_audio that lets the analyzer go without stop()
LoadAudioStop_NoStop ==
    /\ threads < MaxRuns
    /\ guiPc = "idle"
    /\ mainPc = "idle"
    /\ guiPc' = "load"
    /\ UNCHANGED <<progVars, mainPc, ret, histVars, metaVars, dspVars,
                   spectrogram_data, data_lock, last_displayed_frame,
                   events, guiArgs>>

\* load_audio(path): the stop() of the analyzer of the file shown
LoadAudioStop ==
    /\ threads < MaxRuns
    /\ ViewerStop("load")

\* closeEvent: the stop() of the analyzer
CloseEvent == ViewerStop("close")

\* closeEvent: stop() has returned, super().closeEvent(event)
CloseEventReturn ==
    /\ guiPc = "close"
    /\ mainPc = "idle"
    /\ guiPc' = "closed"
    /\ UNCHANGED <<progVars, mainPc, ret, histVars, metaVars, dspVars,
                   spectrogram_data, data_lock, last_displayed_frame,
                   events, guiArgs>>

\* load_audio after stop() has returned: self.analyzer = None,
\* self.spectrogram_data = None, self.audio_path = path.  The analyzer
\* let go keeps its own queue and its own stop event, which stays set:
\* its reader touches nothing of the viewer and leaves the model, its
\* worker can only finish the callback it is in and issue the end signal.
LoadAudioReset(samples) ==
    /\ guiPc = "load"
    /\ mainPc = "idle"
    /\ guiPc' = "start"
    /\ spectrogram_data' = NoBuffer
    /\ fileSamples' = samples
    /\ audio_queue' = <<>>
    /\ readerPc' = [r \in Runs |->
                      IF ReaderAlive(r) THEN "done" ELSE readerPc[r]]
    /\ buffer' = [r \in Runs |-> <<>>]
    /\ frame_index' = [r \in Runs |-> 0]
    /\ streamPos' = [r \in Runs |-> 0]
    /\ UNCHANGED <<metaVars, dspVars, fft_size, hop_length,
                   num_time_frames, is_running, is_finished, stop_event,
                   threads, workerPc, calls, mainPc, ret, histVars,
                   data_lock, last_displayed_frame, events, guiArgs>>

\* load_audio: _start_analysis() on the new path.  A new analyzer is
\* created and started; when start() raises, or np.full raises on the
\* returned num_time_frames, the except clause only sets the title.
LoadAudioStart ==
    /\ guiPc = "start"
    /\ guiPc' = "idle"
    /\ \E probeOk \in BOOLEAN :
         IF ~probeOk
         THEN /\ ret' = "MetadataUnavailable"
              /\ UNCHANGED <<progVars, histVars, metaVars,
                             spectrogram_data, last_displayed_frame>>
         ELSE /\ is_running' = TRUE
              /\ is_finished' = FALSE
              /\ stop_event' = FALSE
              /\ threads' = threads + 1
              /\ readerPc' = [readerPc EXCEPT ![threads + 1] = "next"]
              /\ workerPc' = [workerPc EXCEPT ![threads + 1] = "loop"]
              /\ ret' = "started"
              /\ num_time_frames' = NumTimeFrames
              /\ LoadAndReturnMetadata
              /\ spectrogram_data' =
                    AllocateBuffer(NumTimeFrames, Len(FreqBins))
              /\ last_displayed_frame' =
                    IF NumTimeFrames < 0 THEN last_displayed_frame ELSE 0
              /\ UNCHANGED <<fft_size, hop_length, fileSamples,
                             audio_queue, buffer, frame_index, streamPos,
                             calls, histVars>>
    /\ UNCHANGED <<mainPc, dspVars, data_lock, events, guiArgs>>

\* the worker of an analyzer the viewer has let go, back from the
\* callback: `while not self._stop_event.is_set()` on its own event,
\* which stop() has set
OldWorkerLoop(r) ==
    /\ r < threads
    /\ workerPc[r] = "loop"
    /\ workerPc' = [workerPc EXCEPT ![r] = "finally"]
    /\ UNCHANGED <<metaVars, dspVars, viewVars, fft_size, hop_length,
                   fileSamples, num_time_frames, is_running, is_finished,
                   stop_event, audio_queue, threads, readerPc, buffer,
                   frame_index, streamPos, calls, mainPc, ret, histVars>>

\* finally: self.is_finished = True, on its own analyzer
OldWorkerFinally(r) ==
    /\ r < threads
    /\ workerPc[r] = "finally"
    /\ workerPc' = [workerPc EXCEPT ![r] = "terminal"]
    /\ UNCHANGED <<metaVars, dspVars, viewVars, fft_size, hop_length,
                   fileSamples, num_time_frames, is_running, is_finished,
                   stop_event, audio_queue, threads, readerPc, buffer,
                   frame_index, streamPos, calls, mainPc, ret, histVars>>

\* the viewer constructed on a file of at most MaxReloadSamples samples
ReloadInit ==
    /\ ViewInit
    /\ fileSamples <= MaxReloadSamples

ReloadNext ==
    \/ ReaderNext(threads)
    \/ ReaderWhile(threads)
    \/ ReaderPut(threads)
    \/ ReaderPutTimeout(threads)
    \/ ReaderSentinel(threads)
    \/ WorkerLoop(threads)
    \/ WorkerGet(threads)
    \/ WorkerGetTimeout(threads)
    \/ WorkerFinally(threads)
    \/ \E r \in Runs : OldWorkerLoop(r)
    \/ \E r \in Runs : OldWorkerFinally(r)
    \/ \E r \in Runs : OnFftResultThreaded(r)
    \/ \E r \in Runs : OnFftEndThreaded(r)
    \/ GuiStep
    \/ LoadAudioStop
    \/ StopJoinReader
    \/ StopJoinWorker
    \/ \E samples \in 0..MaxRestartSamples : LoadAudioReset(samples)
    \/ LoadAudioStart
    \/ CloseEvent
    \/ CloseEventReturn

ReloadSpec == ReloadInit /\ [][ReloadNext]_vars

C21_StreamErrorStillEndsRun ==
    /\ (threads = 1 /\ streamFailed[1])
          ~> (stopCalled \/ cbRaised[1] \/ Completed(1))
    /\ [][\A r \in Runs :
            ReaderStreamError(r) => UNCHANGED <<mainPc, ret>>]_vars

\* the stream raised after a frame was enqueued, no stop(), and the run has
\* completed with that frame delivered
C21_Witness ==
    /\ threads = 1
    /\ streamFailed[1]
    /\ ~stopCalled
    /\ ~cbRaised[1]
    /\ fileSamples > fft_size
    /\ Completed(1)
    /\ Len(calls) = 2

\* ---- C22 -----------------------------------------------------------------
\* C22: is_finished is true only when both the reader thread and the
\* worker thread of the current run have ended.
C22_FinishedOnlyAfterBothEnded ==
    (threads >= 1 /\ is_finished)
        => (~ReaderAlive(threads) /\ ~WorkerAlive(threads))

\* ---- C27 -----------------------------------------------------------------
\* a run that stop() has ended: every run before the current one (start()
\* is refused until stop() has cleared is_running), and the current one
\* once stop() was called
StoppedRun(w) ==
    \/ w < threads
    \/ w = threads /\ stopCalled

\* C27: once stop() has set the stop event, the worker of the stopped run
\* leaves its loop at its next loop test, that is after at most the one
\* frame it was waiting for or processing; it takes no further frame from
\* the queue.
C27_StoppedWorkerLeavesLoop ==
    [][\A w \in Runs :
          (StoppedRun(w) /\ WorkerLoop(w)) => workerPc'[w] = "finally"]_vars

\* ---- C26 -----------------------------------------------------------------
\* the batch size the reader is said to fill before it enqueues (16 by
\* default in the tests of the constructor; the smallest value that tells
\* a batch from a single frame is enough here)
BatchSize == 2

\* the number of frames a queue item carries: the reader puts the pair
\* (frame_index, frame), one frame, and None carries no frame
FramesIn(item) == IF IsNone(item) THEN 0 ELSE 1

\* C26: the reader enqueues a batch when it holds batch_size frames and
\* only the last batch before None may be partial: a queue item that is
\* followed by another frame item of the same reader carries batch_size
\* frames, and every frame item carries between 1 and batch_size frames.
C26_FullBatchesBeforeLast ==
    /\ \A i \in 1..Len(audio_queue) :
          ~IsNone(audio_queue[i])
              => (FramesIn(audio_queue[i]) \in 1..BatchSize)
    /\ \A i, j \in 1..Len(audio_queue) :
          (/\ i < j
           /\ ~IsNone(audio_queue[i])
           /\ ~IsNone(audio_queue[j])
           /\ audio_queue[i].by = audio_queue[j].by)
              => (FramesIn(audio_queue[i]) = BatchSize)

\* ---- C31 -----------------------------------------------------------------
\* C31: whatever start() and stop() calls were made on the analyzer, at
\* most one reader thread and at most one worker thread of it are alive.
C31_OneThreadPairAlive ==
    /\ Cardinality({r \in Runs : ReaderAlive(r)}) <= 1
    /\ Cardinality({r \in Runs : WorkerAlive(r)}) <= 1

\* ---- C32 -----------------------------------------------------------------
\* the items of reader r on the queue, and the None items among them
ItemsBy(r) == SelectSeq(audio_queue, LAMBDA item : item.by = r)
NonesBy(r) == SelectSeq(ItemsBy(r), IsNone)

C33_FramesFillBuffer ==
    threads >= 1 =>
        /\ \A i \in 1..Len(calls) :
              ~IsTerminal(calls[i]) => calls[i].idx < num_time_frames
        /\ (NaturallyFinished(threads) /\ dropped[threads] = {})
              => Len(FrameIdxsBy(threads)) = num_time_frames

\* ---- C36 -----------------------------------------------------------------
\* _start_analysis has returned through its except clause: the title is
\* the error and there is no buffer (inside load_audio the buffer is also
\* None before _start_analysis is called)
StartAnalysisFailed ==
    /\ ~spectrogram_data.allocated
    /\ guiPc # "start"

\* C36: when _start_analysis has reported an error, the analyzer of the
\* viewer is not running and none of its threads is alive.
C36_NoTaskAfterStartError ==
    StartAnalysisFailed =>
        ~(is_running /\ (ReaderAlive(threads) \/ WorkerAlive(threads)))

\* ---- C34 -----------------------------------------------------------------
\* C34: every row written in the buffer holds a frame of the analyzer the
\* buffer was allocated for: after load_audio, no frame of the analyzer of
\* the previous file is written into the buffer of the new file.
C34_NoStaleFrameInNewBuffer ==
    spectrogram_data.allocated =>
        \A i \in 1..Len(spectrogram_data.rows) :
            \A k \in 1..Len(spectrogram_data.rows[i]) :
                spectrogram_data.rows[i][k] \in {Fill, Cell(i - 1, threads)}

\* ---- C35 -----------------------------------------------------------------
\* C35: whenever the GUI thread is in _on_analysis_complete, about to emit
\* analysis_complete for the file shown, the end signal that brought it
\* there came from the worker of the analyzer of that file.
C35_CompleteOnlyForOwnAnalyzer ==
    guiPc = "complete" => guiArgs.by = threads

\* ---- C37 -----------------------------------------------------------------
\* the positions of the GUI thread inside _on_frame_received
FramePcs == {"received", "acquire", "write", "release", "post"}

\* the tests of _on_frame_received on the frame it was called with
FrameInRange ==
    /\ spectrogram_data.allocated
    /\ 0 <= guiArgs.idx
    /\ guiArgs.idx < Len(spectrogram_data.rows)

\* the step changes nothing of the buffer but the first
\* min(len(magnitudes_db), shape[1]) entries of row frame_index
OnlyFrameRowWritten ==
    LET old == spectrogram_data.rows
        new == spectrogram_data'.rows
        at == guiArgs.idx + 1
    IN  /\ spectrogram_data'.allocated
        /\ Len(new) = Len(old)
        /\ \A i \in 1..Len(old) :
              /\ Len(new[i]) = Len(old[i])
              /\ \A k \in 1..Len(old[i]) :
                    new[i][k] # old[i][k]
                       => (i = at /\ k <= Min(guiArgs.n, Len(old[i])))

\* C37: _on_frame_received gets to the write only with a buffer and with
\* 0 <= frame_index < number of rows, and its write changes only the
\* first min(len(magnitudes), row width) entries of row frame_index; with
\* no buffer or any other index it returns with the buffer and
\* _last_displayed_frame as they were.
C37_FrameWritesOnlyItsRow ==
    /\ [](guiPc \in {"acquire", "write", "release"} => FrameInRange)
    /\ [][(guiPc \in FramePcs) =>
            (\/ UNCHANGED <<spectrogram_data, last_displayed_frame>>
             \/ guiPc = "write" /\ FrameInRange /\ OnlyFrameRowWritten)
         ]_vars
    /\ [][(guiPc = "received" /\ guiPc' # "received") =>
            (/\ guiPc' \in (IF FrameInRange
                            THEN {"acquire"}
                            ELSE {"idle", "post"})
             /\ UNCHANGED <<spectrogram_data, last_displayed_frame>>)
         ]_vars

\* the new file has one frame, written from the new analyzer, and a frame
\* of the previous analyzer with an index beyond the buffer was passed over
C37_Witness ==
    /\ guiPc = "post"
    /\ spectrogram_data.allocated
    /\ Len(spectrogram_data.rows) = 1
    /\ spectrogram_data.rows[1][1] = Cell(0, 2)
    /\ guiArgs.idx >= 1
    /\ last_displayed_frame = 1

\* ---- C38 -----------------------------------------------------------------
\* the rows of the buffer that a frame has been written into, numbered
\* from 1: row i holds the frame with index i - 1
WrittenRows ==
    {i \in 1..Len(spectrogram_data.rows) :
        \E k \in 1..Len(spectrogram_data.rows[i]) :
            spectrogram_data.rows[i][k] # Fill}

RECURSIVE SetMax(_)
SetMax(S) ==
    IF S = {} THEN 0
    ELSE LET x == CHOOSE y \in S : TRUE
         IN  Maximum(x, SetMax(S \ {x}))

\* C38: _last_displayed_frame decreases only when _start_analysis
\* allocates a new buffer and sets it to 0; while there is a buffer it is
\* at most the number of rows, and it is 1 + the largest frame index
\* written into the buffer (0 when no row has been written).
C38_LastDisplayedFrame ==
    /\ [][last_displayed_frame' < last_displayed_frame =>
            (/\ guiPc = "start"
             /\ spectrogram_data'.allocated
             /\ last_displayed_frame' = 0)]_vars
    /\ [](spectrogram_data.allocated =>
            /\ last_displayed_frame <= Len(spectrogram_data.rows)
            /\ last_displayed_frame = SetMax(WrittenRows))

\* after load_audio: the one frame of the new file has been written, and
\* _last_displayed_frame counts from the reset
C38_Witness ==
    /\ threads = 2
    /\ spectrogram_data.allocated
    /\ Len(spectrogram_data.rows) = 1
    /\ spectrogram_data.rows[1][1] = Cell(0, 2)
    /\ last_displayed_frame = 1
    /\ guiPc = "idle"
    /\ events = <<>>
    /\ workerPc[2] = "done"

\* ---- C39 -----------------------------------------------------------------
\* C39: the first step of load_audio and of closeEvent is stop() on the
\* analyzer, with nothing else of the viewer touched; load_audio lets the
\* analyzer go and starts the new one only when stop() has returned and
\* the analyzer is not running, so a new analyzer is never set running
\* while the previous one is.
C39_StopBeforeNewAnalyzer ==
    /\ [][(guiPc = "idle" /\ guiPc' \in {"load", "close"}) =>
            (/\ is_running => (stop_event' /\ mainPc' = "joinReader")
             /\ ~is_running'
             /\ UNCHANGED <<spectrogram_data, last_displayed_frame,
                            fileSamples, threads, metadata>>)
         ]_vars
    /\ [](guiPc \in {"load", "close", "start"} => ~is_running)
    /\ [](guiPc = "start" => mainPc = "idle")
    /\ [][(guiPc = "load" /\ guiPc' # "load") =>
            (mainPc = "idle" /\ ret \in {"stopped", "stopNoop"})]_vars
    /\ [][threads' # threads =>
            (/\ guiPc = "start"
             /\ ~is_running
             /\ mainPc = "idle"
             /\ threads' = threads + 1
             /\ is_running')]_vars

\* load_audio has started the analyzer of the new file after a stop()
\* whose join timed out: the worker of the previous analyzer is still in
\* the callback, its analyzer is not running
C39_Witness ==
    /\ threads = 2
    /\ is_running
    /\ stopCalled
    /\ guiPc = "idle"
    /\ workerPc[1] = "callback"
    /\ ReaderAlive(2)

====
